---- MODULE Spec2Model ----
(***************************************************************************)
(* A model of importlab's graph.py: ImportGraph (the dependency graph      *)
(* builder, the cycle collapser, the root resolver and the topological     *)
(* sequencer) and Cycle (the composite node).                              *)
(*                                                                         *)
(* The external collaborators are modelled as an environment:              *)
(*   - parsepy.scan_file: the content of a file is unknown until the file  *)
(*     is scanned for the first time; it is then fixed (fs), so that       *)
(*     scanning is a pure function of the file;                            *)
(*   - resolve.Resolver.resolve_import: a fixed table (resolve_import);    *)
(*   - networkx: DiGraph is a pair (nodes, edges); find_cycle returns any  *)
(*     simple cycle as a list of edges; topological_sort returns any       *)
(*     topological order.                                                  *)
(***************************************************************************)
EXTENDS Integers, Sequences, FiniteSets, TLC

VARIABLES
    nodes,        \* self.graph: the nodes
    edges,        \* self.graph: the edges, pairs <<dependent, dependency>>
    broken_deps,  \* self.broken_deps: a function whose domain is the keys
    root,         \* self.root
    cycles,       \* the Cycle objects constructed so far, by identity
    queue,        \* add_file_recursive: the local deque
    seen,         \* add_file_recursive: the local set
    pc,           \* the call in progress, or "idle"
    prefix,       \* collapse_cycles: the local prefix
    collapsed,    \* collapse_cycles has returned
    out,          \* what the last call returned or raised
    fs,           \* environment: the content of the files scanned so far
    ncalls,       \* history: the number of builder calls made
    scans,        \* history: the scans made, in order, over all calls
    enqueued,     \* history: the files enqueued by the current traversal
    built         \* history: the graph as it was when collapse_cycles began

vars == <<nodes, edges, broken_deps, root, cycles, queue, seen, pc, prefix,
          collapsed, out, fs, ncalls, scans, enqueued, built>>

----------------------------------------------------------------------------
(* Bounds *)

\* the number of import statements over all the files scanned
MaxImports == 4
\* the number of import statements of one file: half of them all
MaxFileImports == MaxImports \div 2
\* the number of add_file / add_file_recursive calls
MaxCalls == 2

----------------------------------------------------------------------------
(* Strings: a path is an atomic string; Chars gives its characters         *)

PyFiles == {"/r/A.py", "/r/B.py", "/r/C.py"}
StubFiles == {"/t/S.pyi"}
SoFiles == {"/r/X.so"}
AbsPaths == PyFiles \cup StubFiles \cup SoFiles
\* what the resolver may return: absolute paths and one relative path
RawPaths == AbsPaths \cup {"A.py"}

Chars(p) ==
    CASE p = "/r/A.py"  -> <<"/", "r", "/", "A", ".", "p", "y">>
      [] p = "/r/B.py"  -> <<"/", "r", "/", "B", ".", "p", "y">>
      [] p = "/r/C.py"  -> <<"/", "r", "/", "C", ".", "p", "y">>
      [] p = "/t/S.pyi" -> <<"/", "t", "/", "S", ".", "p", "y", "i">>
      [] p = "/r/X.so"  -> <<"/", "r", "/", "X", ".", "s", "o">>
      [] p = "A.py"     -> <<"A", ".", "p", "y">>

\* the working directory of the process
Cwd == <<"/", "r">>

\* str.endswith
EndsWith(p, suffix) ==
    LET c == Chars(p) IN
    /\ Len(c) >= Len(suffix)
    /\ SubSeq(c, Len(c) - Len(suffix) + 1, Len(c)) = suffix

DotPy == <<".", "p", "y">>
DotSo == <<".", "s", "o">>

\* os.path.abspath: an absolute path is kept, a relative one is joined to
\* the working directory
AbsPath(p) ==
    IF Chars(p)[1] = "/" THEN p
    ELSE CHOOSE q \in AbsPaths : Chars(q) = Cwd \o <<"/">> \o Chars(p)

----------------------------------------------------------------------------
(* The environment: the scanner and the resolver                           *)

\* the import specifiers a file may contain
Imports == {"a", "a2", "b", "c", "s", "x", "m"}

\* resolve.ImportException
ImportException == "ImportException"

\* Resolver.resolve_import: the file a specifier resolves to, as the
\* resolver returns it, or ImportException
resolve_import(imp) ==
    CASE imp = "a"  -> "/r/A.py"
      [] imp = "a2" -> "A.py"
      [] imp = "b"  -> "/r/B.py"
      [] imp = "c"  -> "/r/C.py"
      [] imp = "s"  -> "/t/S.pyi"
      [] imp = "x"  -> "/r/X.so"
      [] imp = "m"  -> ImportException

Min(x, y) == IF x <= y THEN x ELSE y

RECURSIVE SeqsOfLen(_, _)
SeqsOfLen(S, n) ==
    IF n = 0 THEN {<<>>}
    ELSE {Append(q, x) : q \in SeqsOfLen(S, n - 1), x \in S}

SeqsUpTo(S, n) == UNION {SeqsOfLen(S, k) : k \in 0..n}

RECURSIVE SumLen(_, _)
SumLen(f, D) ==
    IF D = {} THEN 0
    ELSE LET d == CHOOSE d \in D : TRUE
         IN Len(f[d].imports) + SumLen(f, D \ {d})

\* the import statements of the files scanned so far
ImportsUsed == SumLen(fs, DOMAIN fs)

\* parsepy.scan_file: what scanning filename may give. A file scanned before
\* gives what it gave; a new file is unreadable (the scan raises) or holds
\* any sequence of specifiers
scan_file(filename) ==
    IF filename \in DOMAIN fs THEN {fs[filename]}
    ELSE {[ok |-> FALSE, imports |-> <<>>]} \cup
         {[ok |-> TRUE, imports |-> q] :
              q \in SeqsUpTo(Imports, Min(MaxFileImports,
                                            MaxImports - ImportsUsed))}

Range(q) == {q[i] : i \in 1..Len(q)}

----------------------------------------------------------------------------
(* Nodes, Cycle and the graph                                              *)

\* a node of the graph is a path (a string) or a Cycle object
FileNode(p) == [path |-> p, cid |-> 0]
CycleNode(k) == [path |-> "", cid |-> k]
\* isinstance(node, Cycle)
IsCycle(n) == n.cid > 0

\* Cycle.__init__
Cycle(cycle_edges, cycle_root) ==
    [root  |-> cycle_root,
     edges |-> cycle_edges,
     nodes |-> [i \in 1..Len(cycle_edges) |-> cycle_edges[i][1]]]

\* Cycle.__contains__
Contains(cycle, v) == v \in Range(cycle.nodes)

\* Cycle.flatten_nodes, of the Cycle object n in the heap heapc
RECURSIVE flatten_nodes(_, _)
RECURSIVE FlattenFrom(_, _, _)
FlattenFrom(heapc, ns, i) ==
    IF i > Len(ns) THEN <<>>
    ELSE (IF IsCycle(ns[i]) THEN flatten_nodes(heapc, ns[i])
          ELSE <<ns[i].path>>) \o FlattenFrom(heapc, ns, i + 1)
flatten_nodes(heapc, n) == FlattenFrom(heapc, heapc[n.cid].nodes, 1)

\* nx.DiGraph
Graph(ns, es) == [nodes |-> ns, edges |-> es]
\* add_node that makes the node anew: a node already in the graph loses the
\* edges that leave it
add_node_anew(g, n) == Graph(g.nodes \cup {n}, {e \in g.edges : e[1] # n})
add_node(g, n) == Graph(g.nodes \cup {n}, g.edges)
add_edge(g, u, v) == Graph(g.nodes \cup {u, v}, g.edges \cup {<<u, v>>})
remove_edge(g, u, v) == Graph(g.nodes, g.edges \ {<<u, v>>})
\* remove_node that leaves the edges of the node in the graph
remove_node_keep_edges(g, n) == Graph(g.nodes \ {n}, g.edges)
remove_node(g, n) ==
    Graph(g.nodes \ {n}, {e \in g.edges : e[1] # n /\ e[2] # n})

Succ(g, u) == {e[2] : e \in {d \in g.edges : d[1] = u}}

\* the simple paths of g with at most k more nodes, extending those of P
RECURSIVE SimplePaths(_, _, _)
SimplePaths(g, P, k) ==
    IF k = 0 \/ P = {} THEN P
    ELSE P \cup SimplePaths(g,
             UNION {{Append(p, v) : v \in Succ(g, p[Len(p)]) \ Range(p)}
                      : p \in P},
             k - 1)

\* nx.find_cycle: the cycles it may return, each a list of edges that
\* starts and ends at one node and passes no node twice; none when it
\* raises NetworkXNoCycle
find_cycle(g) ==
    LET paths == SimplePaths(g, {<<n>> : n \in g.nodes}, Cardinality(g.nodes))
        closed == {p \in paths : <<p[Len(p)], p[1]>> \in g.edges}
    IN {[i \in 1..Len(p) |-> <<p[i], p[(i % Len(p)) + 1]>>] : p \in closed}

\* nx.topological_sort: the orders it may produce, every node once and
\* the source of every edge before its target; none when it raises
\* NetworkXUnfeasible
RECURSIVE TopoFrom(_, _)
TopoFrom(g, rest) ==
    IF rest = {} THEN {<<>>}
    ELSE UNION {{<<n>> \o q : q \in TopoFrom(g, rest \ {n})} :
                  n \in {m \in rest :
                           \A e \in g.edges : e[2] = m => e[1] \notin rest}}
\* a sort that gives up the order where a cycle stands in its way: when no
\* node is free of predecessors it goes on with any node
RECURSIVE TopoFromAny(_, _)
TopoFromAny(g, rest) ==
    IF rest = {} THEN {<<>>}
    ELSE LET free == {m \in rest :
                        \A e \in g.edges : e[2] = m => e[1] \notin rest}
             pick == IF free = {} THEN rest ELSE free
         IN UNION {{<<n>> \o q : q \in TopoFromAny(g, rest \ {n})} : n \in pick}
topological_sort_any(g) == TopoFromAny(g, g.nodes)
topological_sort(g) == TopoFrom(g, g.nodes)

----------------------------------------------------------------------------
(* ImportGraph: the helpers                                                *)

Lookup(f, k, default) == IF k \in DOMAIN f THEN f[k] ELSE default

\* self.broken_deps[key].add(imp) on the defaultdict(set)
BrokenAdd(bd, key, imp) ==
    [k \in DOMAIN bd \cup {key} |->
        IF k = key THEN Lookup(bd, k, {}) \cup {imp} ELSE bd[k]]

RECURSIVE BrokenAddAll(_, _, _, _)
BrokenAddAll(bd, key, imps, i) ==
    IF i > Len(imps) THEN bd
    ELSE BrokenAddAll(BrokenAdd(bd, key, imps[i]), key, imps, i + 1)

\* get_file_deps whose try block is around the loop: the first
\* ImportException ends the loop
RECURSIVE get_file_deps_stop(_, _, _)
get_file_deps_stop(imports, i, acc) ==
    IF i > Len(imports) THEN acc
    ELSE LET imp == imports[i]
             f == resolve_import(imp)
         IN IF f = ImportException
            THEN [acc EXCEPT !.unresolved = Append(@, imp)]
            ELSE get_file_deps_stop(imports, i + 1,
                     IF ~EndsWith(f, DotSo)
                     THEN [acc EXCEPT !.resolved = Append(@, AbsPath(f))]
                     ELSE acc)

\* ImportGraph.get_file_deps, after the scan gave imports: the try block,
\* specifier by specifier
RECURSIVE get_file_deps(_, _, _)
get_file_deps(imports, i, acc) ==
    IF i > Len(imports) THEN acc
    ELSE LET imp == imports[i]
             f == resolve_import(imp)
         IN get_file_deps(imports, i + 1,
                IF f = ImportException
                THEN [acc EXCEPT !.unresolved = Append(@, imp)]
                ELSE IF ~EndsWith(f, DotSo)
                THEN [acc EXCEPT !.resolved = Append(@, AbsPath(f))]
                ELSE acc)

FileDeps(imports) ==
    get_file_deps(imports, 1, [resolved |-> <<>>, unresolved |-> <<>>])

\* add_file_recursive that follows a dependency whatever its name ends in
RECURSIVE AddDepsAnyName(_, _, _, _)
AddDepsAnyName(filename, deps, i, st) ==
    IF i > Len(deps) THEN st
    ELSE LET f == deps[i]
             follow == /\ FileNode(f) \notin st.g.nodes
                       /\ f \notin st.seen
             st1 == IF follow
                    THEN [st EXCEPT !.queue = Append(@, f),
                                    !.seen = @ \cup {f},
                                    !.enq = Append(@, f)]
                    ELSE st
             g1 == add_node(st1.g, FileNode(f))
             g2 == add_edge(g1, FileNode(filename), FileNode(f))
         IN AddDepsAnyName(filename, deps, i + 1, [st1 EXCEPT !.g = g2])

\* add_file_recursive that does not look for a dependency among the nodes
RECURSIVE AddDepsUnseenOnly(_, _, _, _)
AddDepsUnseenOnly(filename, deps, i, st) ==
    IF i > Len(deps) THEN st
    ELSE LET f == deps[i]
             follow == /\ f \notin st.seen
                       /\ EndsWith(f, DotPy)
             st1 == IF follow
                    THEN [st EXCEPT !.queue = Append(@, f),
                                    !.seen = @ \cup {f},
                                    !.enq = Append(@, f)]
                    ELSE st
             g1 == add_node(st1.g, FileNode(f))
             g2 == add_edge(g1, FileNode(filename), FileNode(f))
         IN AddDepsUnseenOnly(filename, deps, i + 1, [st1 EXCEPT !.g = g2])

\* add_file_recursive that draws the edge from the dependency to the file
RECURSIVE AddDepsBackwards(_, _, _, _)
AddDepsBackwards(filename, deps, i, st) ==
    IF i > Len(deps) THEN st
    ELSE LET f == deps[i]
             follow == /\ FileNode(f) \notin st.g.nodes
                       /\ f \notin st.seen
                       /\ EndsWith(f, DotPy)
             st1 == IF follow
                    THEN [st EXCEPT !.queue = Append(@, f),
                                    !.seen = @ \cup {f},
                                    !.enq = Append(@, f)]
                    ELSE st
             g1 == add_node(st1.g, FileNode(f))
             g2 == add_edge(g1, FileNode(f), FileNode(filename))
         IN AddDepsBackwards(filename, deps, i + 1, [st1 EXCEPT !.g = g2])

\* ImportGraph.add_file_recursive: the loop over deps, on the locals
\* st = [g, queue, seen, enq]
RECURSIVE AddDeps(_, _, _, _)
AddDeps(filename, deps, i, st) ==
    IF i > Len(deps) THEN st
    ELSE LET f == deps[i]
             follow == /\ FileNode(f) \notin st.g.nodes
                       /\ f \notin st.seen
                       /\ EndsWith(f, DotPy)
             st1 == IF follow
                    THEN [st EXCEPT !.queue = Append(@, f),
                                    !.seen = @ \cup {f},
                                    !.enq = Append(@, f)]
                    ELSE st
             g1 == add_node(st1.g, FileNode(f))
             g2 == add_edge(g1, FileNode(filename), FileNode(f))
         IN AddDeps(filename, deps, i + 1, [st1 EXCEPT !.g = g2])

\* ImportGraph.add_file: the two loops
RECURSIVE AddResolved(_, _, _, _)
AddResolved(filename, resolved, i, g) ==
    IF i > Len(resolved) THEN g
    ELSE AddResolved(filename, resolved, i + 1,
             add_edge(add_node(g, FileNode(resolved[i])),
                      FileNode(filename), FileNode(resolved[i])))

\* the value None of self.root
None == <<"None">>

\* the directories of the file system (os.path.isdir)
Dirs == {<<"/">>, <<"/", "r">>, <<"/", "r", "/">>, <<"/", "t">>,
         <<"/", "t", "/">>}

\* os.path.commonprefix of a set of strings: the longest string that all
\* of them begin with (what the comparison of min and max computes)
commonprefix(S) ==
    IF S = {} THEN <<>>
    ELSE LET one == CHOOSE c \in S : TRUE
             n == CHOOSE k \in 0..Len(one) :
                    /\ \A c \in S : Len(c) >= k /\ SubSeq(c, 1, k) = SubSeq(one, 1, k)
                    /\ \A j \in (k + 1)..Len(one) :
                         \E c \in S : Len(c) < j \/ SubSeq(c, 1, j) # SubSeq(one, 1, j)
         IN SubSeq(one, 1, n)

\* str.rstrip("/")
RECURSIVE RStripSlash(_)
RStripSlash(c) ==
    IF c # <<>> /\ c[Len(c)] = "/" THEN RStripSlash(SubSeq(c, 1, Len(c) - 1))
    ELSE c

\* os.path.dirname
dirname(c) ==
    LET slashes == {i \in 1..Len(c) : c[i] = "/"}
        i == IF slashes = {} THEN 0
             ELSE CHOOSE k \in slashes : \A j \in slashes : j <= k
        head == SubSeq(c, 1, i)
    IN IF head # <<>> /\ RStripSlash(head) # <<>> THEN RStripSlash(head)
       ELSE head

\* ImportGraph.find_root: [raised, root]. commonprefix raises TypeError on
\* a Cycle object
find_root(recalculate, cached, es) ==
    IF recalculate \/ cached = None \/ cached = <<>>
    THEN LET keys == {e[1] : e \in es}
         IN IF \E k \in keys : IsCycle(k)
            THEN [raised |-> TRUE, root |-> cached]
            ELSE LET pre == commonprefix({Chars(k.path) : k \in keys})
                 IN [raised |-> FALSE,
                     root |-> IF pre \notin Dirs THEN dirname(pre) ELSE pre]
    ELSE [raised |-> FALSE, root |-> cached]

\* extract_cycle that re-wires the edges into the cycle only
RECURSIVE RewireIncoming(_, _, _, _)
RewireIncoming(g, todo, cycle, cnode) ==
    IF todo = {} THEN g
    ELSE LET e == CHOOSE d \in todo : TRUE
             k == e[1]
             v == e[2]
             g1 == IF ~Contains(cycle, k) /\ Contains(cycle, v)
                   THEN add_edge(remove_edge(g, k, v), k, cnode)
                   ELSE g
         IN RewireIncoming(g1, todo \ {e}, cycle, cnode)

\* extract_cycle that re-wires the edges out of the cycle only
RECURSIVE RewireOutgoing(_, _, _, _)
RewireOutgoing(g, todo, cycle, cnode) ==
    IF todo = {} THEN g
    ELSE LET e == CHOOSE d \in todo : TRUE
             k == e[1]
             v == e[2]
             g1 == IF Contains(cycle, k) /\ ~Contains(cycle, v)
                   THEN add_edge(remove_edge(g, k, v), cnode, v)
                   ELSE g
         IN RewireOutgoing(g1, todo \ {e}, cycle, cnode)

\* extract_cycle that keeps an edge inside the cycle as an edge of the
\* composite to itself
RECURSIVE RewireWithLoop(_, _, _, _)
RewireWithLoop(g, todo, cycle, cnode) ==
    IF todo = {} THEN g
    ELSE LET e == CHOOSE d \in todo : TRUE
             k == e[1]
             v == e[2]
             g1 == IF ~Contains(cycle, k) /\ Contains(cycle, v)
                   THEN add_edge(remove_edge(g, k, v), k, cnode)
                   ELSE IF Contains(cycle, k) /\ ~Contains(cycle, v)
                   THEN add_edge(remove_edge(g, k, v), cnode, v)
                   ELSE IF Contains(cycle, k) /\ Contains(cycle, v)
                   THEN add_edge(remove_edge(g, k, v), cnode, cnode)
                   ELSE g
         IN RewireWithLoop(g1, todo \ {e}, cycle, cnode)

\* ImportGraph.extract_cycle: the loop over the edges. Every edge of the
\* snapshot is visited once and no visit changes what another one sees
RECURSIVE Rewire(_, _, _, _)
Rewire(g, todo, cycle, cnode) ==
    IF todo = {} THEN g
    ELSE LET e == CHOOSE d \in todo : TRUE
             k == e[1]
             v == e[2]
             g1 == IF ~Contains(cycle, k) /\ Contains(cycle, v)
                   THEN add_edge(remove_edge(g, k, v), k, cnode)
                   ELSE IF Contains(cycle, k) /\ ~Contains(cycle, v)
                   THEN add_edge(remove_edge(g, k, v), cnode, v)
                   ELSE g
         IN Rewire(g1, todo \ {e}, cycle, cnode)

\* extract_cycle that leaves the first member of the cycle in the graph
RECURSIVE RemoveNodesButFirst(_, _, _)
RemoveNodesButFirst(g, ns, i) ==
    IF i > Len(ns) THEN g
    ELSE RemoveNodesButFirst(IF i = 1 THEN g ELSE remove_node(g, ns[i]),
                             ns, i + 1)

RECURSIVE RemoveNodes(_, _, _)
RemoveNodes(g, ns, i) ==
    IF i > Len(ns) THEN g
    ELSE RemoveNodes(remove_node(g, ns[i]), ns, i + 1)

\* ImportGraph.extract_cycle
extract_cycle(g, cycle, cnode) ==
    LET g0 == add_node(g, cnode)
        g1 == Rewire(g0, g0.edges, cycle, cnode)
    IN RemoveNodes(g1, cycle.nodes, 1)

\* deps_list that emits a unit for every node, stubs too
RECURSIVE DepsOutAll(_, _, _)
DepsOutAll(heapc, order, i) ==
    IF i > Len(order) THEN <<>>
    ELSE LET node == order[i]
         IN (IF IsCycle(node) THEN <<flatten_nodes(heapc, node)>>
             ELSE <<<<node.path>>>>) \o DepsOutAll(heapc, order, i + 1)

\* ImportGraph.deps_list: the loop over one topological order
RECURSIVE DepsOut(_, _, _)
DepsOut(heapc, order, i) ==
    IF i > Len(order) THEN <<>>
    ELSE LET node == order[i]
         IN (IF IsCycle(node) THEN <<flatten_nodes(heapc, node)>>
             ELSE IF EndsWith(node.path, DotPy) THEN <<<<node.path>>>>
             ELSE <<>>) \o DepsOut(heapc, order, i + 1)

\* deps_list that returns out as it is
ReversedNot(q) == q

\* reversed(out)
Reversed(q) == [i \in 1..Len(q) |-> q[Len(q) + 1 - i]]

\* ImportGraph.deps_list: what it may return; nothing when the sort raises
deps_list(heapc, g) ==
    {Reversed(DepsOut(heapc, order, 1)) : order \in topological_sort(g)}

----------------------------------------------------------------------------
(* ImportGraph: the state and the operations                               *)

G == Graph(nodes, edges)

\* the files a caller may pass to add_file and add_file_recursive
Seeds == PyFiles \cup StubFiles

Call(op) == [op |-> op, raised |-> FALSE, val |-> <<>>]
Raise(op) == [op |-> op, raised |-> TRUE, val |-> <<>>]

\* ImportGraph.__init__
Init ==
    /\ nodes = {}
    /\ edges = {}
    /\ broken_deps = <<>>
    /\ root = None
    /\ cycles = <<>>
    /\ queue = <<>>
    /\ seen = {}
    /\ pc = "idle"
    /\ prefix = None
    /\ collapsed = FALSE
    /\ out = Call("__init__")
    /\ fs = <<>>
    /\ ncalls = 0
    /\ scans = <<>>
    /\ enqueued = <<>>
    /\ built = Graph({}, {})

\* the file system after filename was scanned and gave content
Scanned(filename, content) ==
    [f \in DOMAIN fs \cup {filename} |->
        IF f = filename THEN content ELSE fs[f]]

\* an entry of the history scans: the call, its operation and the file
ScanOf(call, op, filename) == [call |-> call, op |-> op, file |-> filename]

CanBuild == pc = "idle" /\ ~collapsed /\ ncalls < MaxCalls

\* ImportGraph.add_file, the scan succeeds
AddFile(filename) ==
    /\ CanBuild
    /\ \E content \in scan_file(filename) :
         /\ content.ok
         /\ fs' = Scanned(filename, content)
         /\ LET deps == FileDeps(content.imports)
                g1 == add_node(G, FileNode(filename))
                g2 == AddResolved(filename, deps.resolved, 1, g1)
            IN /\ nodes' = g2.nodes
               /\ edges' = g2.edges
               /\ broken_deps' = BrokenAddAll(broken_deps, FileNode(filename),
                                              deps.unresolved, 1)
    /\ scans' = Append(scans, ScanOf(ncalls + 1, "add_file", filename))
    /\ ncalls' = ncalls + 1
    /\ out' = Call("add_file")
    /\ UNCHANGED <<root, cycles, queue, seen, pc, prefix, collapsed,
                   enqueued, built>>

\* ImportGraph.add_file, parsepy.scan_file raises: get_file_deps raises
\* before the graph is touched
AddFileScanFails(filename) ==
    /\ CanBuild
    /\ \E content \in scan_file(filename) :
         /\ ~content.ok
         /\ fs' = Scanned(filename, content)
    /\ scans' = Append(scans, ScanOf(ncalls + 1, "add_file", filename))
    /\ ncalls' = ncalls + 1
    /\ out' = Raise("add_file")
    /\ UNCHANGED <<nodes, edges, broken_deps, root, cycles, queue, seen, pc,
                   prefix, collapsed, enqueued, built>>

\* ImportGraph.add_file_recursive: the two assignments before the loop
AddFileRecursiveStart(filename) ==
    /\ CanBuild
    /\ queue' = <<filename>>
    /\ seen' = {}
    /\ enqueued' = <<filename>>
    /\ pc' = "add_file_recursive"
    /\ ncalls' = ncalls + 1
    /\ out' = Call("add_file_recursive")
    /\ UNCHANGED <<nodes, edges, broken_deps, root, cycles, prefix,
                   collapsed, fs, scans, built>>

\* add_file_recursive whose loop is "while True": with the queue empty it
\* goes round without end
AddFileRecursiveStepNoReturn ==
    /\ pc = "add_file_recursive"
    /\ IF queue = <<>> THEN UNCHANGED vars
       ELSE LET filename == Head(queue)
                g0 == add_node(G, FileNode(filename))
            IN /\ \E content \in scan_file(filename) :
                     /\ content.ok
                     /\ fs' = Scanned(filename, content)
                     /\ LET deps == FileDeps(content.imports)
                            st == AddDeps(filename, deps.resolved, 1,
                                          [g |-> g0, queue |-> Tail(queue),
                                           seen |-> seen, enq |-> enqueued])
                        IN /\ broken_deps' = BrokenAddAll(broken_deps,
                                      FileNode(filename), deps.unresolved, 1)
                           /\ nodes' = st.g.nodes
                           /\ edges' = st.g.edges
                           /\ queue' = st.queue
                           /\ seen' = st.seen
                           /\ enqueued' = st.enq
                           /\ pc' = pc
               /\ scans' = Append(scans,
                                   ScanOf(ncalls, "add_file_recursive", filename))
               /\ UNCHANGED <<root, cycles, prefix, collapsed, out, ncalls,
                              built>>

\* ImportGraph.add_file_recursive: one iteration of the loop, the scan
\* succeeds; the call returns when the iteration leaves the queue empty
AddFileRecursiveStep ==
    /\ pc = "add_file_recursive"
    /\ queue # <<>>
    /\ LET filename == Head(queue)
           g0 == add_node(G, FileNode(filename))
       IN /\ \E content \in scan_file(filename) :
                /\ content.ok
                /\ fs' = Scanned(filename, content)
                /\ LET deps == FileDeps(content.imports)
                       st == AddDeps(filename, deps.resolved, 1,
                                     [g |-> g0, queue |-> Tail(queue),
                                      seen |-> seen, enq |-> enqueued])
                   IN /\ broken_deps' = BrokenAddAll(broken_deps,
                                 FileNode(filename), deps.unresolved, 1)
                      /\ nodes' = st.g.nodes
                      /\ edges' = st.g.edges
                      /\ queue' = st.queue
                      /\ seen' = IF st.queue = <<>> THEN {} ELSE st.seen
                      /\ enqueued' = st.enq
                      /\ pc' = IF st.queue = <<>> THEN "idle" ELSE pc
          /\ scans' = Append(scans,
                              ScanOf(ncalls, "add_file_recursive", filename))
    /\ UNCHANGED <<root, cycles, prefix, collapsed, out, ncalls, built>>

\* ImportGraph.add_file_recursive: one iteration of the loop,
\* parsepy.scan_file raises: nothing catches it, the call ends
AddFileRecursiveScanFails ==
    /\ pc = "add_file_recursive"
    /\ queue # <<>>
    /\ LET filename == Head(queue)
       IN /\ \E content \in scan_file(filename) :
                /\ ~content.ok
                /\ fs' = Scanned(filename, content)
          /\ nodes' = nodes \cup {FileNode(filename)}
          /\ scans' = Append(scans,
                              ScanOf(ncalls, "add_file_recursive", filename))
    /\ queue' = <<>>
    /\ seen' = {}
    /\ pc' = "idle"
    /\ out' = Raise("add_file_recursive")
    /\ UNCHANGED <<edges, broken_deps, root, cycles, prefix, collapsed,
                   ncalls, enqueued, built>>

\* ImportGraph.collapse_cycles: prefix = self.find_root()
CollapseStart ==
    /\ pc = "idle"
    /\ ~collapsed
    /\ LET r == find_root(FALSE, root, edges)
       IN /\ root' = r.root
          /\ prefix' = r.root
          /\ pc' = IF r.raised THEN "idle" ELSE "collapse_cycles"
          /\ out' = IF r.raised THEN Raise("collapse_cycles")
                    ELSE Call("collapse_cycles")
    /\ built' = G
    /\ UNCHANGED <<nodes, edges, broken_deps, cycles, queue, seen, collapsed,
                   fs, ncalls, scans, enqueued>>

\* collapse_cycles whose loop ends after the first pass
CollapsePassOnce ==
    /\ pc = "collapse_cycles"
    /\ \E cycle_edges \in find_cycle(G) :
         LET cycle == Cycle(cycle_edges, prefix)
             g == extract_cycle(G, cycle, CycleNode(Len(cycles) + 1))
         IN /\ cycles' = Append(cycles, cycle)
            /\ nodes' = g.nodes
            /\ edges' = g.edges
    /\ pc' = "idle"
    /\ collapsed' = TRUE
    /\ UNCHANGED <<broken_deps, root, queue, seen, prefix, out, fs, ncalls,
                   scans, enqueued, built>>

\* collapse_cycles that drops the registry entries of the files it collapses
CollapsePassForget ==
    /\ pc = "collapse_cycles"
    /\ \E cycle_edges \in find_cycle(G) :
         LET cycle == Cycle(cycle_edges, prefix)
             g == extract_cycle(G, cycle, CycleNode(Len(cycles) + 1))
         IN /\ cycles' = Append(cycles, cycle)
            /\ nodes' = g.nodes
            /\ edges' = g.edges
            /\ broken_deps' = [k \in DOMAIN broken_deps \ Range(cycle.nodes)
                                 |-> broken_deps[k]]
    /\ UNCHANGED <<root, queue, seen, pc, prefix, collapsed,
                   out, fs, ncalls, scans, enqueued, built>>

\* ImportGraph.collapse_cycles: one pass of the loop that finds a cycle
CollapsePass ==
    /\ pc = "collapse_cycles"
    /\ \E cycle_edges \in find_cycle(G) :
         LET cycle == Cycle(cycle_edges, prefix)
             g == extract_cycle(G, cycle, CycleNode(Len(cycles) + 1))
         IN /\ cycles' = Append(cycles, cycle)
            /\ nodes' = g.nodes
            /\ edges' = g.edges
    /\ UNCHANGED <<broken_deps, root, queue, seen, pc, prefix, collapsed,
                   out, fs, ncalls, scans, enqueued, built>>

\* collapse_cycles that catches NetworkXNoCycle and goes round again
CollapseReturnContinue ==
    /\ pc = "collapse_cycles"
    /\ find_cycle(G) = {}
    /\ UNCHANGED vars

\* ImportGraph.collapse_cycles: find_cycle raises NetworkXNoCycle
CollapseReturn ==
    /\ pc = "collapse_cycles"
    /\ find_cycle(G) = {}
    /\ pc' = "idle"
    /\ collapsed' = TRUE
    /\ UNCHANGED <<nodes, edges, broken_deps, root, cycles, queue, seen,
                   prefix, out, fs, ncalls, scans, enqueued, built>>

\* ImportGraph.deps_list
DepsList ==
    /\ pc = "idle"
    /\ LET results == deps_list(cycles, G)
       IN IF results = {} THEN out' = Raise("deps_list")
          ELSE \E val \in results :
                 out' = [op |-> "deps_list", raised |-> FALSE, val |-> val]
    /\ UNCHANGED <<nodes, edges, broken_deps, root, cycles, queue, seen, pc,
                   prefix, collapsed, fs, ncalls, scans, enqueued, built>>

\* ImportGraph.find_root, called by the reporting layer
FindRoot(recalculate) ==
    /\ pc = "idle"
    /\ LET r == find_root(recalculate, root, edges)
       IN /\ root' = r.root
          /\ out' = IF r.raised THEN Raise("find_root")
                    ELSE [op |-> "find_root", raised |-> FALSE, val |-> r.root]
    /\ UNCHANGED <<nodes, edges, broken_deps, cycles, queue, seen, pc, prefix,
                   collapsed, fs, ncalls, scans, enqueued, built>>

\* self.broken_deps[key] for every key of keys: a read of the
\* defaultdict(set) makes the entry of a key that has none
BrokenRead(bd, keys) ==
    [k \in DOMAIN bd \cup keys |-> Lookup(bd, k, {})]

\* ImportGraph.inspect_graph: find_root, then for every source of an edge
\* the edges and the registry entry are read and printed
InspectGraph ==
    /\ pc = "idle"
    /\ LET r == find_root(FALSE, root, edges)
           keys == {e[1] : e \in edges}
       IN /\ root' = r.root
          /\ broken_deps' = IF r.raised THEN broken_deps
                            ELSE BrokenRead(broken_deps, keys)
          /\ out' = IF r.raised THEN Raise("inspect_graph")
                    ELSE Call("inspect_graph")
    /\ UNCHANGED <<nodes, edges, cycles, queue, seen, pc, prefix, collapsed,
                   fs, ncalls, scans, enqueued, built>>

\* the builder calls, up to MaxCalls of them
NextBuild ==
    \/ \E filename \in Seeds : AddFile(filename)
    \/ \E filename \in Seeds : AddFileScanFails(filename)
    \/ \E filename \in Seeds : AddFileRecursiveStart(filename)
    \/ AddFileRecursiveStep
    \/ AddFileRecursiveScanFails

SpecBuild == Init /\ [][NextBuild]_vars

\* the pipeline: one builder call, then collapse_cycles, and deps_list at
\* any time between the calls
FirstCall == ncalls = 0

Next ==
    \/ \E filename \in Seeds : FirstCall /\ AddFile(filename)
    \/ \E filename \in Seeds : FirstCall /\ AddFileScanFails(filename)
    \/ \E filename \in Seeds : FirstCall /\ AddFileRecursiveStart(filename)
    \/ AddFileRecursiveStep
    \/ AddFileRecursiveScanFails
    \/ CollapseStart
    \/ CollapsePass
    \/ CollapseReturn
    \/ DepsList

Spec == Init /\ [][Next]_vars

\* the pipeline up to the end of collapse_cycles
NextCollapse ==
    \/ \E filename \in Seeds : FirstCall /\ AddFile(filename)
    \/ \E filename \in Seeds : FirstCall /\ AddFileScanFails(filename)
    \/ \E filename \in Seeds : FirstCall /\ AddFileRecursiveStart(filename)
    \/ AddFileRecursiveStep
    \/ AddFileRecursiveScanFails
    \/ CollapseStart
    \/ CollapsePass
    \/ CollapseReturn

SpecCollapse == Init /\ [][NextCollapse]_vars

\* collapse_cycles is a loop of one thread: once called it keeps running
\* until it returns
FairSpec ==
    Init /\ [][NextCollapse]_vars /\ WF_vars(CollapsePass \/ CollapseReturn)

\* one builder call alone
NextTraverse ==
    \/ \E filename \in Seeds : FirstCall /\ AddFile(filename)
    \/ \E filename \in Seeds : FirstCall /\ AddFileScanFails(filename)
    \/ \E filename \in Seeds : FirstCall /\ AddFileRecursiveStart(filename)
    \/ AddFileRecursiveStep
    \/ AddFileRecursiveScanFails

\* add_file_recursive is a loop of one thread: once called it keeps running
\* until it returns or raises
FairTraverse ==
    /\ Init /\ [][NextTraverse]_vars
    /\ WF_vars(AddFileRecursiveStep \/ AddFileRecursiveScanFails)

\* the pipeline with the reporting calls between its calls
NextReport ==
    \/ \E filename \in Seeds : FirstCall /\ AddFile(filename)
    \/ \E filename \in Seeds : FirstCall /\ AddFileScanFails(filename)
    \/ \E filename \in Seeds : FirstCall /\ AddFileRecursiveStart(filename)
    \/ AddFileRecursiveStep
    \/ AddFileRecursiveScanFails
    \/ CollapseStart
    \/ CollapsePass
    \/ CollapseReturn
    \/ DepsList
    \/ \E recalculate \in BOOLEAN : FindRoot(recalculate)
    \/ InspectGraph

SpecReport == Init /\ [][NextReport]_vars

----------------------------------------------------------------------------
(* Properties: the vocabulary                                              *)

\* the nodes that one or more edges of es lead to from the nodes of front
RECURSIVE ReachFrom(_, _, _)
ReachFrom(es, front, found) ==
    LET next == {e[2] : e \in {d \in es : d[1] \in front}} \ found
    IN IF next = {} THEN found ELSE ReachFrom(es, next, found \cup next)

Reachable(es, n) == ReachFrom(es, {n}, {})

\* no directed cycle and no self-loop: no node leads back to itself
Acyclic(g) == \A n \in g.nodes : n \notin Reachable(g.edges, n)

NoDuplicates(q) == \A i, j \in 1..Len(q) : q[i] = q[j] => i = j

\* the files of a node: the flattened members of a Cycle, or the file
Leaves(heapc, n) == IF IsCycle(n) THEN flatten_nodes(heapc, n) ELSE <<n.path>>

\* the files across all the units of a deps_list result
UnitFiles(val) == UNION {Range(val[i]) : i \in 1..Len(val)}

\* the last call was deps_list and it returned, on the graph as it is now
DepsReturned == pc = "idle" /\ out.op = "deps_list" /\ ~out.raised

\* an add_file_recursive call has returned and no other call was made since
RecursiveReturned ==
    pc = "idle" /\ out.op = "add_file_recursive" /\ ~out.raised

----------------------------------------------------------------------------
(* C1 *)

\* C1: when collapse_cycles has returned, the graph contains no directed
\* cycle and no self-loop, whatever graph was built and whatever cycle each
\* pass picked.
C1_AcyclicAfterCollapse == collapsed => Acyclic(G)

\* a run in which a second cycle was collapsed around an earlier composite
C1_Witness ==
    /\ collapsed
    /\ Len(cycles) >= 2
    /\ \E n \in nodes : IsCycle(n) /\ \E m \in Range(cycles[n.cid].nodes) : IsCycle(m)
    /\ Acyclic(G)

----------------------------------------------------------------------------
(* C2 *)

\* C2: collapse_cycles terminates: once the loop is entered the call
\* returns, whatever cycle find_cycle gives on each pass.
C2_CollapseTerminates == (pc = "collapse_cycles") ~> collapsed

\* a call that returned after three passes
C2_Witness == collapsed /\ Len(cycles) = 3

----------------------------------------------------------------------------
(* C3 *)

\* C3: end to end, for every import edge (a, b) of the graph as built whose
\* two files both appear in the output of deps_list, a and b are in one
\* unit or the unit of the dependency b comes before the unit of a.
C3_DependenciesFirst ==
    (collapsed /\ DepsReturned) =>
        \A e \in built.edges : \A i, j \in 1..Len(out.val) :
            (e[1].path \in Range(out.val[i]) /\ e[2].path \in Range(out.val[j]))
                => j <= i

\* an output with a composite unit and an import edge that leaves it
C3_Witness ==
    /\ collapsed /\ DepsReturned
    /\ \E i, j \in 1..Len(out.val) :
         /\ j < i
         /\ Len(out.val[i]) >= 2
         /\ \E e \in built.edges :
              e[1].path \in Range(out.val[i]) /\ e[2].path \in Range(out.val[j])

----------------------------------------------------------------------------
(* C4 *)

\* the nodes deps_list emits a unit for
Emitted(n) == IsCycle(n) \/ EndsWith(n.path, DotPy)
\* the places of the unit of node n in the last result
UnitPlaces(n) == {i \in 1..Len(out.val) : out.val[i] = Leaves(cycles, n)}

ChainABC ==
    /\ nodes = {FileNode("/r/A.py"), FileNode("/r/B.py"), FileNode("/r/C.py")}
    /\ edges = {<<FileNode("/r/A.py"), FileNode("/r/B.py")>>,
                <<FileNode("/r/B.py"), FileNode("/r/C.py")>>}

\* C4: when deps_list returns, every emitted node has a unit, for every
\* edge (dependent, dependency) between emitted nodes the unit of the
\* dependency precedes the unit of the dependent, and the chain A imports B
\* imports C gives [[C], [B], [A]].
C4_DepsListOrder ==
    DepsReturned =>
        /\ \A n \in nodes : Emitted(n) => UnitPlaces(n) # {}
        /\ \A e \in edges : (Emitted(e[1]) /\ Emitted(e[2])) =>
              \A i \in UnitPlaces(e[1]), j \in UnitPlaces(e[2]) : j < i
        /\ ChainABC =>
              out.val = <<<<"/r/C.py">>, <<"/r/B.py">>, <<"/r/A.py">>>>

\* deps_list returned on the chain
C4_Witness ==
    /\ DepsReturned /\ ChainABC
    /\ out.val = <<<<"/r/C.py">>, <<"/r/B.py">>, <<"/r/A.py">>>>

----------------------------------------------------------------------------
(* C5 *)

\* C5: in every state from the start of collapse_cycles on, the flattened
\* files of the nodes of the graph repeat no file within a node, share no
\* file between two nodes, and are together the file nodes the graph had
\* when collapse_cycles was called.
C5_NoFileLostOrDuplicated ==
    (pc = "collapse_cycles" \/ collapsed) =>
        /\ \A n \in nodes : NoDuplicates(Leaves(cycles, n))
        /\ \A n, m \in nodes :
              n # m => Range(Leaves(cycles, n)) \cap Range(Leaves(cycles, m)) = {}
        /\ UNION {Range(Leaves(cycles, n)) : n \in nodes}
              = {n.path : n \in built.nodes}

\* inside the loop, a composite of three files around an earlier composite
C5_Witness ==
    /\ pc = "collapse_cycles"
    /\ \E n \in nodes :
         /\ IsCycle(n)
         /\ Len(Leaves(cycles, n)) = 3
         /\ \E m \in Range(cycles[n.cid].nodes) : IsCycle(m)

----------------------------------------------------------------------------
(* C6 *)

\* the files scanned so far
ScannedFiles == {scans[i].file : i \in 1..Len(scans)}

\* the builder call of the pipeline was add_file_recursive and it returned
BuiltFromSeed == enqueued # <<>> /\ \A f \in DOMAIN fs : fs[f].ok

\* the files that lie in a composite node of the graph
InComposite == UNION {Range(Leaves(cycles, n)) : n \in {m \in nodes : IsCycle(m)}}

\* C6 as claimed: after building from a seed, collapsing and sequencing, the
\* files across the units of deps_list are exactly the files scanned.
C6_UnitsAreScannedFiles ==
    (BuiltFromSeed /\ collapsed /\ DepsReturned) =>
        UnitFiles(out.val) = ScannedFiles

\* C6 as amended: after building from a seed, collapsing and sequencing,
\* every file in a unit was scanned, and a scanned file is in a unit exactly
\* when its name ends in ".py" or it was collapsed into a composite (a seed
\* of another name that lies in no cycle is scanned and not emitted).
C6_UnitsAreScannedSources ==
    (BuiltFromSeed /\ collapsed /\ DepsReturned) =>
        /\ UnitFiles(out.val) \subseteq ScannedFiles
        /\ \A f \in ScannedFiles :
              f \in UnitFiles(out.val) <=> (EndsWith(f, DotPy) \/ f \in InComposite)

\* a stub seed that imports two source files, one of them importing a stub:
\* the output holds the source files only
C6_Witness ==
    /\ BuiltFromSeed /\ collapsed /\ DepsReturned
    /\ scans[1].file = "/t/S.pyi"
    /\ FileNode("/t/S.pyi") \in nodes
    /\ UnitFiles(out.val) = {"/r/A.py", "/r/B.py"}

----------------------------------------------------------------------------
(* C7 *)

\* the specifiers of a scanned file whose resolution fails, and the others
FailedImports(f) ==
    {imp \in Range(fs[f].imports) : resolve_import(imp) = ImportException}
ResolvedImports(f) == Range(fs[f].imports) \ FailedImports(f)

\* the targets of the edges of file f
EdgeTargets(f) == {e[2] : e \in {d \in edges : d[1] = FileNode(f)}}

\* C7: when add_file_recursive has returned, for every file scanned the
\* registry entry is exactly the set of its specifiers that failed to
\* resolve, its edges lead to resolved targets only (none for a failed
\* specifier), every resolved specifier was still handled wherever the
\* failures stand among them (an edge, unless the target is a ".so"), and
\* every file put on the queue was scanned.
C7_BrokenDepsExact ==
    RecursiveReturned =>
        /\ \A f \in DOMAIN fs : fs[f].ok =>
              /\ Lookup(broken_deps, FileNode(f), {}) = FailedImports(f)
              /\ EdgeTargets(f) \subseteq
                    {FileNode(AbsPath(resolve_import(imp))) : imp \in ResolvedImports(f)}
              /\ \A imp \in ResolvedImports(f) :
                    ~EndsWith(resolve_import(imp), DotSo) =>
                        FileNode(AbsPath(resolve_import(imp))) \in EdgeTargets(f)
        /\ Range(enqueued) \subseteq ScannedFiles

\* a traversal in which a file's first specifier failed and its second one
\* led to another file, scanned later
C7_Witness ==
    /\ RecursiveReturned
    /\ \E f \in DOMAIN fs :
         /\ fs[f].ok
         /\ Len(fs[f].imports) = 2
         /\ fs[f].imports[1] = "m"
         /\ fs[f].imports[2] = "b"
         /\ f # "/r/B.py"
         /\ broken_deps[FileNode(f)] = {"m"}
    /\ \E i \in 2..Len(scans) : scans[i].file = "/r/B.py"

----------------------------------------------------------------------------
(* C8 *)

\* scan k was the first scan of its call: the file is the call's seed
SeedScan(k) == \A j \in 1..(k - 1) : scans[j].call # scans[k].call

\* only source files are put on the queue behind the seed, and a traversal
\* scans nothing but its seed and source files
OnlySourcesFollowed ==
    /\ \A i \in 2..Len(enqueued) : EndsWith(enqueued[i], DotPy)
    /\ \A k \in 1..Len(scans) :
          scans[k].op = "add_file_recursive" =>
              (SeedScan(k) \/ EndsWith(scans[k].file, DotPy))

\* the graph is as the builder made it: collapse_cycles was not called
BeforeCollapse == pc # "collapse_cycles" /\ ~collapsed

----------------------------------------------------------------------------
(* C9 *)

\* C9 as claimed: a scan failure aborts only the subtree of the file that
\* failed, so that when a traversal has ended, by a return or by the
\* failure, every file that was put on the queue has been scanned.
C9_FailureAbortsOnlySubtree ==
    (pc = "idle" /\ out.op = "add_file_recursive") =>
        Range(enqueued) \subseteq ScannedFiles

----------------------------------------------------------------------------
(* C10 *)

RecursiveScan(k) == scans[k].op = "add_file_recursive"

\* C10 as claimed: over any sequence of add_file_recursive calls no file is
\* scanned twice.
C10_ScannedAtMostOnce ==
    (\A k \in 1..Len(scans) : RecursiveScan(k)) =>
        \A i, j \in 1..Len(scans) : scans[i].file = scans[j].file => i = j

\* C10 as amended: within one traversal no file is enqueued twice or
\* scanned twice, and a file scanned by an earlier add_file_recursive call
\* is scanned again by a later one only as the seed of that call.
C10_ScannedOncePerTraversal ==
    /\ NoDuplicates(enqueued)
    /\ \A i, j \in 1..Len(scans) :
          (/\ RecursiveScan(i) /\ RecursiveScan(j)
           /\ i < j
           /\ scans[i].file = scans[j].file)
          => (scans[i].call # scans[j].call /\ SeedScan(j))

\* a second call whose seed the first call scanned, and which leaves alone
\* a file of the first call that the seed imports
C10_Witness ==
    /\ RecursiveReturned
    /\ Len(scans) = 3
    /\ scans[1].file # scans[2].file
    /\ scans[3].file = scans[2].file
    /\ scans[3].call = 2
    /\ scans[2].call = 1
    /\ "a" \in Range(fs[scans[3].file].imports)
    /\ scans[1].file = "/r/A.py"

----------------------------------------------------------------------------
(* C11 *)

\* the loop of add_file_recursive stands between two iterations, or the call
\* has ended and no builder call was made since
LoopBoundary ==
    BeforeCollapse /\ enqueued # <<>> /\ out.op = "add_file_recursive"

\* the files whose scan has completed
ScanCompleted == {f \in DOMAIN fs : fs[f].ok}

\* C11: at every iteration boundary of the worklist loop of
\* add_file_recursive both endpoints of every edge are nodes of the graph,
\* and every edge (f, t) has a file f whose scan has completed and a target
\* t that one of the specifiers of f resolved to.
C11_WellFormedAtBoundaries ==
    LoopBoundary =>
        \A e \in edges :
            /\ e[1] \in nodes /\ e[2] \in nodes
            /\ ~IsCycle(e[1])
            /\ e[1].path \in ScanCompleted
            /\ \E imp \in ResolvedImports(e[1].path) :
                  e[2] = FileNode(AbsPath(resolve_import(imp)))

\* the loop stands between two iterations with files still on the queue,
\* one of them the target of an edge and not yet scanned
C11_Witness ==
    /\ pc = "add_file_recursive"
    /\ Len(queue) = 2
    /\ \E e \in edges : e[2].path = queue[2] /\ queue[2] \notin DOMAIN fs

----------------------------------------------------------------------------
(* C12 *)

\* every key of the registry stays, with every specifier of its set
RegistryGrows ==
    \A k \in DOMAIN broken_deps :
        k \in DOMAIN broken_deps' /\ broken_deps[k] \subseteq broken_deps'[k]

\* C12: the broken-dependency registry only grows: no step of add_file,
\* add_file_recursive, collapse_cycles or deps_list removes a key or removes
\* a specifier from the set of a key, also when the file of the key is
\* collapsed into a composite.
C12_RegistryOnlyGrows == [][RegistryGrows]_vars

\* collapse_cycles has returned and a file with a broken dependency lies in
\* a composite: it is no node of the graph and still a key of the registry
C12_Witness ==
    /\ collapsed
    /\ \E k \in DOMAIN broken_deps :
         /\ k \notin nodes
         /\ k.path \in InComposite
         /\ broken_deps[k] = {"m"}

----------------------------------------------------------------------------
(* C13 *)

\* the targets that the specifiers of a scanned file lead to: one for all
\* the specifiers that resolve to one file, none for a ".so"
DistinctTargets(f) ==
    {AbsPath(resolve_import(imp)) :
        imp \in {i \in ResolvedImports(f) : ~EndsWith(resolve_import(i), DotSo)}}

\* every scanned file has one edge for each distinct target, however many of
\* its specifiers resolve to that target
OneEdgePerTarget ==
    \A f \in ScanCompleted :
        /\ Cardinality(EdgeTargets(f)) = Cardinality(DistinctTargets(f))
        /\ Cardinality({e \in edges : e[1] = FileNode(f)})
              = Cardinality(DistinctTargets(f))

\* add_file of a file that was scanned before, with the scan and the
\* resolutions it had then, leaves the nodes and the edges as they are
AddFileAgainChangesNothing ==
    \A f \in Seeds :
        (f \in ScanCompleted /\ AddFile(f)) => UNCHANGED <<nodes, edges>>

\* C13: inserting an edge that is present leaves the graph unchanged: two
\* specifiers of one file that resolve to one target give one edge, and a
\* second add_file of a file, with the same scan and resolve results, leaves
\* the node set and the edge set as they were after the first.
C13_EdgeInsertionIdempotent ==
    []OneEdgePerTarget /\ [][AddFileAgainChangesNothing]_vars

\* add_file was called twice for one file whose two specifiers resolve to
\* one target: the graph has the one edge
C13_Witness ==
    /\ Len(scans) = 2
    /\ scans[1].op = "add_file" /\ scans[2].op = "add_file"
    /\ scans[1].file = "/r/B.py" /\ scans[2].file = "/r/B.py"
    /\ fs["/r/B.py"].ok
    /\ fs["/r/B.py"].imports = <<"a", "a2">>
    /\ edges = {<<FileNode("/r/B.py"), FileNode("/r/A.py")>>}
    /\ nodes = {FileNode("/r/A.py"), FileNode("/r/B.py")}

----------------------------------------------------------------------------
(* C14 *)

\* the last call was deps_list, on the graph as it is now
DepsCalled == pc = "idle" /\ out.op = "deps_list"

\* C14: deps_list on a graph that contains a cycle, a self-loop included,
\* ends in an error: it never returns a sequence of units for such a graph.
C14_DepsListRaisesOnCycle == (DepsCalled /\ ~Acyclic(G)) => out.raised

\* deps_list was called on a graph whose one cycle is a self-loop, before
\* collapse_cycles, and raised
C14_Witness ==
    /\ DepsCalled /\ out.raised
    /\ ~collapsed
    /\ \E n \in nodes : <<n, n>> \in edges
    /\ \A e \in edges : e[1] # e[2] => e[1] \notin Reachable(edges, e[2])

----------------------------------------------------------------------------
(* C15 *)

\* for every node of g, the nodes that one or more edges lead to from it
Reach(g) == [n \in g.nodes |-> Reachable(g.edges, n)]

\* node n lies on a cycle (a self-loop is one), r being Reach of the graph
OnCycle(r, n) == n \in r[n]

\* the strongly connected component of n: n and the nodes that reach n and
\* are reached from n
SCC(r, n) == {n} \cup {m \in r[n] : n \in r[m]}

\* the composite nodes of the graph
Composites == {n \in nodes : IsCycle(n)}

\* C15: when collapse_cycles has returned, every file of the graph as built
\* lies in one node, whatever cycle each pass picked: a file on a cycle in
\* a composite whose files are exactly the strongly connected component of
\* the file, a file on no cycle in its own plain node. So the files of every
\* composite are one component, and two files share a composite exactly
\* when each reaches the other.
C15_CompositesAreComponents ==
    collapsed =>
        LET r == Reach(built)
            files == [n \in nodes |-> Range(Leaves(cycles, n))]
        IN /\ \A n \in Composites : files[n] # {}
           /\ \A f \in built.nodes :
                 LET home == {n \in nodes : f.path \in files[n]}
                 IN IF OnCycle(r, f)
                    THEN /\ Cardinality(home) = 1
                         /\ home \subseteq Composites
                         /\ \A n \in home :
                               files[n] = {m.path : m \in SCC(r, f)}
                    ELSE home = {f}

\* two passes: a cycle of two files, then a cycle that closes across the
\* composite of the two and a third file
C15_Witness ==
    /\ collapsed
    /\ Len(cycles) = 2
    /\ Cardinality(built.nodes) = 3
    /\ \E n \in Composites :
         /\ Len(Leaves(cycles, n)) = 3
         /\ Len(cycles[n.cid].nodes) = 2
         /\ \E m \in Range(cycles[n.cid].nodes) : IsCycle(m)

----------------------------------------------------------------------------
(* C16 *)

\* this step is one pass of collapse_cycles that found a cycle and
\* extracted it
PassStep == pc = "collapse_cycles" /\ Len(cycles') = Len(cycles) + 1

\* node n after the members are replaced by the composite c
Quotient(n, members, c) == IF n \in members THEN c ELSE n

\* the step gives the quotient graph of the cycle it extracted
QuotientStep ==
    LET c == CycleNode(Len(cycles'))
        members == Range(cycles'[Len(cycles')].nodes)
        inner == {e \in edges : e[1] \in members /\ e[2] \in members}
        outer == {e \in edges : e[1] \notin members /\ e[2] \notin members}
    IN /\ edges' = {<<Quotient(e[1], members, c), Quotient(e[2], members, c)>> :
                       e \in edges \ inner}
       /\ nodes' = (nodes \ members) \cup {c}
       /\ outer \subseteq edges'
       /\ {e \in edges' : e[1] # c /\ e[2] # c} = outer
       /\ <<c, c>> \notin edges'
       /\ members \cap nodes' = {}
       /\ \A e \in edges' : e[1] \notin members /\ e[2] \notin members

\* C16: one extract_cycle step gives the quotient graph: the edges after it
\* are the edges before it with every member of the cycle replaced by the
\* composite and the edges inside the cycle dropped; the edges between two
\* non-members are unchanged, the composite has no edge to itself and no
\* member is left in the graph.
C16_ExtractGivesQuotient == [][PassStep => QuotientStep]_vars

\* after one pass the composite has an edge from a node outside and an edge
\* to a node outside
C16_Witness ==
    /\ pc = "collapse_cycles"
    /\ Len(cycles) = 1
    /\ \E k, v \in nodes \ Composites :
         /\ <<k, CycleNode(1)>> \in edges
         /\ <<CycleNode(1), v>> \in edges

----------------------------------------------------------------------------
(* C17 *)

\* C17 as claimed: every pass of collapse_cycles that finds a cycle leaves
\* the graph with strictly fewer nodes than it had, for every cycle length,
\* a single file that imports itself included.
C17_PassRemovesNode ==
    [][PassStep => Cardinality(nodes') < Cardinality(nodes)]_vars

\* the number of members of the cycle this pass extracted
PassLength == Len(cycles'[Len(cycles')].nodes)

\* C17 as amended: a pass that finds a cycle of n members removes the n
\* members and adds one composite, so the number of nodes drops by n - 1:
\* strictly for n >= 2, not at all for a file that imports itself; the
\* number of edges drops by n or more in every pass, so nodes plus edges is
\* strictly smaller after every pass.
C17_PassShrinksGraph ==
    [][PassStep =>
         /\ PassLength >= 1
         /\ Cardinality(nodes') = Cardinality(nodes) - (PassLength - 1)
         /\ Cardinality(edges') <= Cardinality(edges) - PassLength
         /\ Cardinality(nodes') + Cardinality(edges')
               < Cardinality(nodes) + Cardinality(edges)]_vars

\* the one pass made so far collapsed a file that imports itself: the graph
\* has as many nodes as before and fewer edges
C17_Witness ==
    /\ pc = "collapse_cycles"
    /\ Len(cycles) = 1
    /\ Len(cycles[1].nodes) = 1
    /\ Cardinality(nodes) = Cardinality(built.nodes)
    /\ Cardinality(nodes) >= 2
    /\ Cardinality(edges) < Cardinality(built.edges)

----------------------------------------------------------------------------
(* C18 *)

\* C18: add_file_recursive terminates: once the loop is entered the worklist
\* becomes empty and the call is over, whatever the files import,
\* themselves and one another included.
C18_TraversalTerminates ==
    (pc = "add_file_recursive") ~> (pc = "idle" /\ queue = <<>>)

\* a traversal that returned after it scanned three files that import one
\* another in a ring, one of them itself too
C18_Witness ==
    /\ RecursiveReturned
    /\ queue = <<>>
    /\ Len(scans) = 3
    /\ \A n \in nodes : nodes \subseteq Reachable(edges, n)
    /\ \E n \in nodes : <<n, n>> \in edges

----------------------------------------------------------------------------
(* C19 *)

\* find_root has computed a value: self.root is no more None
RootComputed == root # None

\* what find_root computes from the sources of the edges as they are
RootOfEdges == find_root(TRUE, root, edges)

\* C19 as claimed: once find_root has computed a value, an empty prefix
\* included, every later call without recalculate returns that value and
\* leaves it as it is, whatever was added to the graph or collapsed in
\* between; a call with recalculate computes the value from the sources of
\* the edges as they are.
C19_FindRootCached ==
    [][/\ (FindRoot(FALSE) /\ RootComputed) =>
             (root' = root /\ ~out'.raised /\ out'.val = root)
       /\ (FindRoot(TRUE) /\ ~out'.raised) =>
             (root' = RootOfEdges.root /\ out'.val = root')]_vars

----------------------------------------------------------------------------
(* C20 *)

\* C20 as claimed: inspect_graph and deps_list leave the nodes, the edges and
\* the broken-dependency registry, its set of keys included, as they were
\* before the call.
C20_ReportingChangesNothing ==
    [][(InspectGraph \/ DepsList) =>
          /\ nodes' = nodes
          /\ edges' = edges
          /\ broken_deps' = broken_deps
          /\ DOMAIN broken_deps' = DOMAIN broken_deps]_vars

====
